---------------------------- MODULE Spec2Model ----------------------------
(***************************************************************************)
(* The subprocess service manager of blinksocks-gui                        *)
(* (src/core/src/utils/service_manager.js): the registry `subprocesses`,   *)
(* the handles made by fork() with their messageQueue, the pollers that    *)
(* send() schedules with setImmediate, and the worker processes as the     *)
(* environment; and the 'request' handler of a client socket               *)
(* (src/unnamed/part_000), which dispatches to the registry.               *)
(*                                                                         *)
(* The manager runs on one event loop.  A turn of the loop has a poll      *)
(* phase, in which I/O callbacks run (client requests, 'message' events    *)
(* of the workers), and a check phase, in which the setImmediate callbacks *)
(* scheduled so far run in the order they were scheduled; a callback       *)
(* scheduled during the check phase runs in the next turn.  The promise    *)
(* continuations of a settled invoke (the rest of start, stop,             *)
(* getServices, the 'request' handler) run before the next callback of     *)
(* either kind; they are part of the Consume action.                       *)
(***************************************************************************)
EXTENDS Integers, Sequences, FiniteSets, TLC

VARIABLES
  subprocesses,  \* the Map: ServiceId -> UNDEFINED (no key), NULL, or a handle
  order,         \* the keys of the Map in the order they were inserted
  alive,         \* alive[h]: the child process of handle h has not been killed
  owner,         \* owner[h]: the id that start() forked handle h for (history)
  messageQueue,  \* messageQueue[h]: the messages received and not yet claimed
  inbox,         \* inbox[h]: the request types sent to worker h, unanswered
  immediates,    \* the pending send()s whose consume is scheduled for the
                 \* next check phase, in the order of their setImmediate
  running,       \* the pending send()s whose consume is left to run in this
                 \* check phase
  uncaught,      \* a callback threw: the manager process is gone
  last,          \* the send() that settled last, with its call's result
  listing,       \* the getServices call under way or settled last
  socket,        \* the 'request' events of a client socket: their number,
                 \* the send()s whose registry call a handler awaits, the
                 \* responses passed to the client's callback, the number
                 \* of handlers that threw (history)
  handshaken,    \* handshaken[h]: a start on handle h has resolved (history)
  started,       \* the ids that were ever passed to start (history)
  junk,          \* number of messages emitted that answer nothing (history)
  issued,        \* number of send()s made (history)
  settled,       \* number of send()s resolved or rejected (history)
  removed,       \* number of messages spliced out of a queue (history)
  limits         \* the bounds of this run: send()s and queued junk messages

vars == <<subprocesses, order, alive, owner, messageQueue, inbox, immediates,
          running, uncaught, last, listing, socket, handshaken, started,
          junk, issued, settled, removed, limits>>

----------------------------------------------------------------------------
(* Bounds of the model. *)

\* Spec: two services whose workers answer requests, in any order.
MaxInvokes == 3
Ids == {"svc1", "svc2"}

\* SpecJunk: one service whose worker also emits messages that answer nothing.
MaxJunkInvokes == 2
MaxJunk == 1
JunkIds == {"svc1"}

\* SpecServices: two services and getServices.
MaxServicesInvokes == 3

\* SpecRunning: the sends made once the two services are running.
MaxRunningInvokes == 3

\* SpecLive: the event loop and the workers under fairness.
MaxLiveInvokes == 2

\* SpecRequests: the 'request' events of one client socket.
MaxRequests == 3

\* The kinds the clients of the model pass to getMetrics; the five methods
\* differ in their names only.
CalledKinds == {"cpu", "traffic", "other"}

----------------------------------------------------------------------------
(* Values. *)

\* subprocesses.get(id) of a key that is not in the Map.
UNDEFINED == 0
\* The tombstone that stop() stores.
NULL == -1

SERVICE_STATUS_INIT == "INIT"
SERVICE_STATUS_RUNNING == "RUNNING"
SERVICE_STATUS_STOPPED == "STOPPED"

\* Strings are sequences of characters, so that indexOf and + are computed.
M_start == <<"s","t","a","r","t">>
M_stop == <<"s","t","o","p">>
M_getStatus == <<"g","e","t","S","t","a","t","u","s">>
M_getCPUMetrics == <<"g","e","t","C","P","U","M","e","t","r","i","c","s">>
M_getMemoryMetrics ==
  <<"g","e","t","M","e","m","o","r","y","M","e","t","r","i","c","s">>
M_getSpeedMetrics ==
  <<"g","e","t","S","p","e","e","d","M","e","t","r","i","c","s">>
M_getConnectionsMetrics ==
  <<"g","e","t","C","o","n","n","e","c","t","i","o","n","s",
    "M","e","t","r","i","c","s">>
M_getTrafficMetrics ==
  <<"g","e","t","T","r","a","f","f","i","c","M","e","t","r","i","c","s">>

SUFFIX_error == <<"/","e","r","r","o","r">>
SUFFIX_done == <<"/","d","o","n","e">>

\* The metric kinds of getMetrics; "other" stands for any other value.
Kinds == {"cpu", "memory", "speed", "connections", "traffic", "other"}

\* JavaScript values that are not objects of the model.
Undefined == [undefined |-> TRUE]
EmptyArray == [array |-> <<>>]

\* Error(payload), and the error of stop's else branch.
ErrorOf(payload) == [name |-> "Error", message |-> payload]
NotFoundError(id) == [name |-> "Error", notFound |-> id]

\* The payloads a worker may put in a reply.  The manager looks inside a
\* payload only in getServiceInfo's spread, so only the replies to getStatus
\* vary in the fields they carry.
ReplyPayloads(type) ==
  IF type = M_getStatus
    THEN {[connections |-> "3"], [status |-> "worker"]}
    ELSE {[connections |-> "3"]}

----------------------------------------------------------------------------
(* Messages a worker emits.  kind is what typeof and === null tell apart:  *)
(* "string" (any non-object), "null", "object"; hasType: the object has a  *)
(* string `type`.  A queued message also carries serial, a tag that tells  *)
(* it from the other messages of its queue (history).                      *)

Msg(kind, hasType, type, payload) ==
  [kind |-> kind, hasType |-> hasType, type |-> type, payload |-> payload]

Reply(type, suffix, payload) == Msg("object", TRUE, type \o suffix, payload)

\* Messages that answer no request.
Junk ==
  { Msg("string", FALSE, <<>>, Undefined),
    Msg("null", FALSE, <<>>, Undefined),
    Msg("object", FALSE, <<>>, Undefined),
    Msg("object", TRUE, M_start, Undefined),
    Msg("object", TRUE, M_start \o <<"A","l","l">> \o SUFFIX_done, Undefined) }

\* typeof message
TypeOf(message) == IF message.kind = "string" THEN "string" ELSE "object"

\* subprocess.on('message', ...): the queue after `message` was received.
OnMessage(queue, message) ==
  IF TypeOf(message) # "object" THEN queue ELSE Append(queue, message)

----------------------------------------------------------------------------
(* send(): scanQueue and consume. *)

\* s.indexOf(t) === 0
StartsWith(s, t) == Len(t) <= Len(s) /\ SubSeq(s, 1, Len(t)) = t

\* message.type.indexOf(...) throws a TypeError on null and on an object
\* that has no string `type`.
TypeThrows(message) == message.kind = "null" \/ ~message.hasType

\* A scan that takes no message for an error reply.
IsErrorNever(message, actionType) == FALSE

\* The two tests of scanQueue on one message.
IsError(message, actionType) ==
  StartsWith(message.type, actionType)
    /\ message.type = actionType \o SUFFIX_error

\* A test that takes the /done reply of any method.
IsDoneOfAny(message, actionType) ==
  /\ Len(message.type) >= Len(SUFFIX_done)
  /\ SubSeq(message.type, Len(message.type) - Len(SUFFIX_done) + 1,
            Len(message.type)) = SUFFIX_done

\* The test on the prefix alone.
IsDonePrefix(message, actionType) == StartsWith(message.type, actionType)

IsDone(message, actionType) ==
  StartsWith(message.type, actionType)
    /\ message.type = actionType \o SUFFIX_done

\* scanQueue from position i on (positions count from 1; index 0 is the
\* code's -1): what it returns, or that it threw.
RECURSIVE ScanFrom(_, _, _)
ScanFrom(queue, actionType, i) ==
  IF i > Len(queue) THEN [index |-> 0, outcome |-> "none"]
  ELSE IF TypeThrows(queue[i]) THEN [index |-> i, outcome |-> "throw"]
  ELSE IF IsError(queue[i], actionType)
    THEN [index |-> i, outcome |-> "rejected"]
  ELSE IF IsDone(queue[i], actionType)
    THEN [index |-> i, outcome |-> "resolved"]
  ELSE ScanFrom(queue, actionType, i + 1)

ScanQueue(queue, actionType) == ScanFrom(queue, actionType, 1)

\* A splice that removes nothing.
SpliceNothing(queue, index) == queue

\* A splice that removes the first message of the queue.
SpliceFirst(queue, index) == Tail(queue)

\* messageQueue.splice(index, 1)
Splice(queue, index) ==
  SubSeq(queue, 1, index - 1) \o SubSeq(queue, index + 1, Len(queue))

----------------------------------------------------------------------------
(* The registry operations' pure parts. *)

\* An if (sub) that is never taken.
IsHandleNever(sub) == FALSE

\* if (sub): a handle is truthy, undefined and null are not.
IsHandle(sub) == sub \notin {UNDEFINED, NULL}

\* No message: a call that returns or throws without a send().
NoSend == <<>>

\* What a registry call does up to its first await: the action type it
\* sends to the handle, or NoSend and how the call settles at once.
Awaits(method) == [send |-> method, state |-> "pending", value |-> Undefined]
Returns(value) == [send |-> NoSend, state |-> "resolved", value |-> value]
Throws(error) == [send |-> NoSend, state |-> "rejected", value |-> error]

\* The two statuses swapped.
StatusOfSwapped(sub) ==
  IF sub = UNDEFINED THEN SERVICE_STATUS_STOPPED ELSE SERVICE_STATUS_INIT

\* getServiceInfo's else branch: the status of an entry that is no handle.
StatusOf(sub) ==
  IF sub = UNDEFINED THEN SERVICE_STATUS_INIT ELSE SERVICE_STATUS_STOPPED

\* { status: SERVICE_STATUS_RUNNING, ...payload }: a later key wins.
RunningInfo(payload) == payload @@ [status |-> SERVICE_STATUS_RUNNING]

\* getMetrics' switch: the method of a kind, <<>> in the default case.
MetricsMethod(kind) ==
  CASE kind = "cpu" -> M_getCPUMetrics
    [] kind = "memory" -> M_getMemoryMetrics
    [] kind = "speed" -> M_getSpeedMetrics
    [] kind = "connections" -> M_getConnectionsMetrics
    [] kind = "traffic" -> M_getTrafficMetrics
    [] OTHER -> <<>>

\* A stop that takes the tombstone for a service already stopped.
StopCallQuiet(sub, id) ==
  IF IsHandle(sub) THEN Awaits(M_stop)
  ELSE IF sub = NULL THEN Returns(Undefined)
  ELSE Throws(NotFoundError(id))

\* stop(id) up to the await.
StopCall(sub, id) ==
  IF IsHandle(sub) THEN Awaits(M_stop) ELSE Throws(NotFoundError(id))

\* getServiceInfo(id) up to the await.
InfoCall(sub, id) ==
  IF IsHandle(sub) THEN Awaits(M_getStatus)
  ELSE Returns([status |-> StatusOf(sub)])

\* A getMetrics that fails like stop.
MetricsCallStrict(sub, kind) ==
  IF IsHandle(sub)
    THEN IF MetricsMethod(kind) # <<>> THEN Awaits(MetricsMethod(kind))
         ELSE Returns(Undefined)
    ELSE Throws(NotFoundError(kind))

\* getMetrics(id, type) up to the await.
MetricsCall(sub, kind) ==
  IF IsHandle(sub)
    THEN IF MetricsMethod(kind) # <<>> THEN Awaits(MetricsMethod(kind))
         ELSE Returns(Undefined)
    ELSE Returns(EmptyArray)

\* A catch that leaves the tombstone.
StartCatchTombstone(subs, id) == [subs EXCEPT ![id] = NULL]

\* start's catch: subprocesses.delete(id)
StartCatch(subs, id) == [subs EXCEPT ![id] = UNDEFINED]

\* stop after the await: subprocesses.set(id, null)
StopSet(subs, id) == [subs EXCEPT ![id] = NULL]

\* One send(): the registry call that made it (op, id, the entry of id when
\* it was called), the handle and the action type; once settled, the
\* message it claimed and the call's result.  ready: a start on the handle
\* had resolved when the call was made (history); seq: the number of the
\* send() in the order the sends were made (history).
Invoke(op, id, before, sub, method, ready, seq) ==
  [op |-> op, id |-> id, before |-> before, sub |-> sub, method |-> method,
   ready |-> ready, seq |-> seq, state |-> "pending", serial |-> 0,
   type |-> <<>>, payload |-> Undefined, result |-> Undefined]

\* No send() has settled yet.
NoInvoke ==
  [Invoke("none", "svc1", UNDEFINED, UNDEFINED, <<>>, FALSE, 0)
     EXCEPT !.state = "none"]

----------------------------------------------------------------------------
(* The keys of the Map and getServices' loop over them.  A Map iterates    *)
(* its keys in insertion order, and an iterator that is under way sees a   *)
(* key that is added after its position and skips one that is deleted.     *)

HasKey(keys, id) == \E k \in DOMAIN keys : keys[k] = id

\* The keys after subprocesses.set(id, ...) and after subprocesses.delete(id).
MapSet(keys, id) == IF HasKey(keys, id) THEN keys ELSE Append(keys, id)
MapDelete(keys, id) == SelectSeq(keys, LAMBDA key : key # id)

\* The keys an iterator has left to visit, after set(id, ...) on a Map
\* whose keys are `keys`: only a new key is appended to the Map.
LeftAfterSet(todo, keys, id) ==
  IF HasKey(keys, id) THEN todo ELSE Append(todo, id)

\* const services = {}
NoServices == [id \in {} |-> Undefined]

\* services[id] = info
Assign(services, id, info) == (id :> info) @@ services

\* The getServices call: not made, or awaiting the getServiceInfo of `id`
\* with the keys `todo` left to visit, or settled.
Listing(state, id, todo, services, error) ==
  [state |-> state, id |-> id, todo |-> todo, services |-> services,
   error |-> error]

NoListing == Listing("none", "", <<>>, NoServices, Undefined)

\* The loop of getServices from the keys `todo` on, up to its next await of
\* a send: a getServiceInfo that sends nothing is assigned at once.
RECURSIVE ListFrom(_, _, _)
ListFrom(subs, todo, services) ==
  IF todo = <<>> THEN Listing("resolved", "", <<>>, services, Undefined)
  ELSE IF InfoCall(subs[Head(todo)], Head(todo)).send # NoSend
    THEN Listing("pending", Head(todo), Tail(todo), services, Undefined)
  ELSE ListFrom(subs, Tail(todo),
                Assign(services, Head(todo),
                       InfoCall(subs[Head(todo)], Head(todo)).value))

----------------------------------------------------------------------------
(* The 'request' handler of a client socket. *)

\* No 'request' event yet.
NoRequests == [requests |-> 0, awaiting |-> {}, responses |-> <<>>,
               unhandled |-> 0]

\* The values a client emits as req: null, or an object with the method
\* and its argument.
NullRequest == [kind |-> "null"]
Request(method, args) == [kind |-> "object", method |-> method, args |-> args]
DispatchedMethods == {"start", "stop", "getServiceInfo"}

\* null, as a result.
Null == [null |-> TRUE]

\* const { method, args } = req throws a TypeError on null.
Destructures(req) == req.kind # "null"

\* err.message
MessageOf(err) == IF "message" \in DOMAIN err THEN err.message ELSE err

\* The response of the try block and of the catch block.
ResponseOk(result) ==
  IF result # Null THEN [code |-> 0, data |-> result] ELSE [code |-> 0]
ResponseError(err) == [code |-> -1, message |-> MessageOf(err)]

\* send(response) once the dispatched call has settled.
Respond(sock, outcome, value) ==
  [sock EXCEPT
     !.responses =
       Append(@, IF outcome = "resolved" THEN ResponseOk(value)
                 ELSE ResponseError(value))]

\* The handler up to its await: the dispatched call awaits the send
\* numbered seq, or it has settled at once.
Handle(sock, call, seq) ==
  IF call.send # NoSend
    THEN [sock EXCEPT !.requests = @ + 1, !.awaiting = @ \cup {seq}]
    ELSE Respond([sock EXCEPT !.requests = @ + 1], call.state, call.value)

\* The handler throws before its try block.
HandleThrows(sock) ==
  [sock EXCEPT !.requests = @ + 1, !.unhandled = @ + 1]

----------------------------------------------------------------------------

Init ==
  /\ subprocesses = [id \in Ids |-> UNDEFINED]
  /\ order = <<>>
  /\ alive = <<>>
  /\ owner = <<>>
  /\ messageQueue = <<>>
  /\ inbox = <<>>
  /\ immediates = <<>>
  /\ running = <<>>
  /\ uncaught = FALSE
  /\ last = NoInvoke
  /\ listing = NoListing
  /\ socket = NoRequests
  /\ handshaken = <<>>
  /\ started = {}
  /\ junk = 0
  /\ issued = 0
  /\ settled = 0
  /\ removed = 0
  /\ limits = [invokes |-> MaxInvokes, junk |-> 0]

\* I/O callbacks run in the poll phase only.
Poll == ~uncaught /\ running = <<>>

\* sub.invoke(method) on an existing handle: subprocess.send(action) and
\* setImmediate(consume).
SendTo(op, id, sub, method) ==
  /\ issued < limits.invokes
  /\ issued' = issued + 1
  /\ immediates' =
       Append(immediates,
              Invoke(op, id, subprocesses[id], sub, method, handshaken[sub],
                     issued + 1))
  /\ inbox' = [inbox EXCEPT ![sub] = Append(@, method)]

\* start(id, config) up to its await.
Start(id) ==
  /\ Poll
  /\ started' = started \cup {id}
  /\ IF IsHandle(subprocesses[id])
       THEN /\ SendTo("start", id, subprocesses[id], M_start)
            /\ UNCHANGED <<subprocesses, order, alive, owner, messageQueue,
                           handshaken, listing>>
       ELSE /\ issued < limits.invokes
            /\ issued' = issued + 1
            /\ alive' = Append(alive, TRUE)
            /\ owner' = Append(owner, id)
            /\ messageQueue' = Append(messageQueue, <<>>)
            /\ handshaken' = Append(handshaken, FALSE)
            /\ subprocesses' = [subprocesses EXCEPT ![id] = Len(alive) + 1]
            /\ order' = MapSet(order, id)
            /\ listing' =
                 IF listing.state = "pending"
                   THEN [listing EXCEPT
                           !.todo = LeftAfterSet(@, order, id)]
                   ELSE listing
            /\ inbox' = Append(inbox, <<M_start>>)
            /\ immediates' =
                 Append(immediates,
                        Invoke("start", id, subprocesses[id], Len(alive) + 1,
                               M_start, FALSE, issued + 1))
  /\ UNCHANGED <<running, uncaught, last, junk, settled, removed, limits>>

\* A call that forks nothing: it sends and awaits, or settles at once and
\* leaves the manager as it was.
Call(op, id, call) ==
  /\ Poll
  /\ IF call.send # NoSend
       THEN SendTo(op, id, subprocesses[id], call.send)
       ELSE UNCHANGED <<issued, immediates, inbox>>
  /\ UNCHANGED <<subprocesses, order, alive, owner, messageQueue, running,
                 uncaught, last, listing, handshaken, started, junk, settled,
                 removed, limits>>

Stop(id) == Call("stop", id, StopCall(subprocesses[id], id))

GetServiceInfo(id) ==
  Call("getServiceInfo", id, InfoCall(subprocesses[id], id))

GetMetrics(id, kind) ==
  Call("getMetrics", id, MetricsCall(subprocesses[id], kind))

\* getServices() up to its first await of a send, or to its return.
GetServices ==
  /\ Poll
  /\ listing.state # "pending"
  /\ listing' = ListFrom(subprocesses, order, NoServices)
  /\ IF listing'.state = "pending"
       THEN SendTo("getServices", listing'.id, subprocesses[listing'.id],
                   M_getStatus)
       ELSE UNCHANGED <<issued, immediates, inbox>>
  /\ UNCHANGED <<subprocesses, order, alive, owner, messageQueue, running,
                 uncaught, last, handshaken, started, junk, settled,
                 removed, limits>>

\* A call of the registry that no 'request' handler makes.
Direct(call) == call /\ UNCHANGED socket

\* Router.dispatch: the registry call of a method, and what it does up to
\* its first await.
Dispatch(method, id) ==
  CASE method = "start" -> Start(id)
    [] method = "stop" -> Stop(id)
    [] method = "getServiceInfo" -> GetServiceInfo(id)

DispatchCall(method, id) ==
  CASE method = "start" -> Awaits(M_start)
    [] method = "stop" -> StopCall(subprocesses[id], id)
    [] method = "getServiceInfo" -> InfoCall(subprocesses[id], id)

\* socket.on('request', ...) up to the await of the dispatched call.
OnRequest(req) ==
  /\ Poll
  /\ socket.requests < limits.requests
  /\ IF Destructures(req)
       THEN /\ Dispatch(req.method, req.args)
            /\ socket' = Handle(socket, DispatchCall(req.method, req.args),
                                issued + 1)
       ELSE /\ socket' = HandleThrows(socket)
            /\ UNCHANGED <<subprocesses, order, alive, owner, messageQueue,
                           inbox, immediates, running, uncaught, last,
                           listing, handshaken, started, junk, issued,
                           settled, removed, limits>>

\* A tag no message of the queue carries.
FreshSerial(queue) ==
  CHOOSE n \in 1..(Len(queue) + 1) :
    /\ \A k \in DOMAIN queue : queue[k].serial # n
    /\ \A m \in 1..(n - 1) : \E k \in DOMAIN queue : queue[k].serial = m

\* A message of worker h arrives: the 'message' handler of fork().
Receive(h, message) ==
  messageQueue' =
    [messageQueue EXCEPT
       ![h] = OnMessage(@, message @@ [serial |-> FreshSerial(@)])]

\* The requests left to answer once the k-th one is answered.
Answered(requests, k) ==
  SubSeq(requests, 1, k - 1) \o SubSeq(requests, k + 1, Len(requests))

\* Worker h answers one of the requests it received, in any order.
WorkerReply(h, k, suffix, payload) ==
  /\ Poll
  /\ alive[h]
  /\ Receive(h, Reply(inbox[h][k], suffix, payload))
  /\ inbox' = [inbox EXCEPT ![h] = Answered(@, k)]
  /\ UNCHANGED <<subprocesses, order, alive, owner, immediates, running,
                 uncaught, last, listing, socket, handshaken, started, junk, issued,
                 settled, removed, limits>>

\* Worker h emits a message that answers nothing.
WorkerJunk(h, message) ==
  /\ Poll
  /\ alive[h]
  /\ junk < limits.junk
  /\ junk' = junk + Len(OnMessage(<<>>, message))
  /\ Receive(h, message)
  /\ UNCHANGED <<subprocesses, order, alive, owner, inbox, immediates,
                 running, uncaught, last, listing, socket, handshaken, started,
                 issued, settled, removed, limits>>

\* The poll phase ends: the check phase runs the callbacks scheduled so far.
BeginCheck ==
  /\ Poll
  /\ immediates # <<>>
  /\ running' = immediates
  /\ immediates' = <<>>
  /\ UNCHANGED <<subprocesses, order, alive, owner, messageQueue, inbox,
                 uncaught, last, listing, socket, handshaken, started, junk, issued,
                 settled, removed, limits>>

\* What the registry call of a settled send() resolves or rejects with.
ResultOf(op, outcome, payload) ==
  IF outcome = "rejected" THEN ErrorOf(payload)
  ELSE IF op \in {"getServiceInfo", "getServices"} THEN RunningInfo(payload)
  ELSE IF op = "getMetrics" THEN payload
  ELSE Undefined

\* A stop that goes on to kill and set after a rejected await.
StopGoesOnAlways(op, outcome) == op = "stop"

\* stop goes on after its await only if the 'stop' send resolved: a
\* rejection leaves stop at the await.
StopGoesOn(op, outcome) == op = "stop" /\ outcome = "resolved"

\* start's catch runs if the 'start' send rejected.
StartFails(op, outcome) == op = "start" /\ outcome = "rejected"

\* getServices after the await of the send of inv: the rejection leaves the
\* loop, the result is assigned and the loop goes on.
ListOn(list, subs, inv, outcome, payload) ==
  IF outcome = "rejected"
    THEN Listing("rejected", "", <<>>, NoServices, ErrorOf(payload))
    ELSE ListFrom(subs, list.todo,
                  Assign(list.services, inv.id,
                         ResultOf(inv.op, outcome, payload)))

\* resolve/reject in scanQueue, and the continuation of the registry call
\* that awaited the send(): start's catch, stop's kill and set, the loop of
\* getServices; and the rest of the 'request' handler that awaited the call.
Settle(inv, outcome, message) ==
  /\ last' = [inv EXCEPT
                !.state = outcome, !.serial = message.serial,
                !.type = message.type, !.payload = message.payload,
                !.result = ResultOf(inv.op, outcome, message.payload)]
  /\ settled' = settled + 1
  /\ subprocesses' =
       IF StartFails(inv.op, outcome)
         THEN StartCatch(subprocesses, inv.id)
       ELSE IF StopGoesOn(inv.op, outcome)
         THEN StopSet(subprocesses, inv.id)
       ELSE subprocesses
  /\ order' =
       IF StartFails(inv.op, outcome) THEN MapDelete(order, inv.id)
       ELSE IF StopGoesOn(inv.op, outcome) THEN MapSet(order, inv.id)
       ELSE order
  /\ alive' =
       IF StopGoesOn(inv.op, outcome)
         THEN [alive EXCEPT ![inv.sub] = FALSE]
       ELSE alive
  /\ handshaken' =
       IF inv.op = "start" /\ outcome = "resolved"
         THEN [handshaken EXCEPT ![inv.sub] = TRUE]
       ELSE handshaken
  /\ listing' =
       IF inv.op = "getServices"
         THEN ListOn(listing, subprocesses, inv, outcome, message.payload)
       ELSE IF listing.state # "pending" THEN listing
       ELSE IF StartFails(inv.op, outcome)
         THEN [listing EXCEPT !.todo = MapDelete(@, inv.id)]
       ELSE IF StopGoesOn(inv.op, outcome)
         THEN [listing EXCEPT !.todo = LeftAfterSet(@, order, inv.id)]
       ELSE listing
  /\ IF inv.op = "getServices" /\ listing'.state = "pending"
       THEN SendTo("getServices", listing'.id, subprocesses[listing'.id],
                   M_getStatus)
       ELSE UNCHANGED <<issued, immediates, inbox>>
  /\ socket' =
       IF inv.seq \in socket.awaiting
         THEN Respond([socket EXCEPT !.awaiting = @ \ {inv.seq}], outcome,
                      ResultOf(inv.op, outcome, message.payload))
         ELSE socket

\* A poller that gives up when it finds no reply.
RescheduleNever(scheduled, inv) == scheduled

\* if (index < 0) setImmediate(consume)
Reschedule(scheduled, inv) == Append(scheduled, inv)

\* consume(): the setImmediate callback of the first send() left to run.
Consume ==
  /\ ~uncaught
  /\ running # <<>>
  /\ LET inv == Head(running)
         h == inv.sub
         found == ScanQueue(messageQueue[h], inv.method)
     IN
     /\ running' = Tail(running)
     /\ IF found.outcome = "throw"
          THEN /\ uncaught' = TRUE
               /\ UNCHANGED <<subprocesses, order, alive, messageQueue,
                              inbox, immediates, last, listing, socket,
                              handshaken,
                              issued, settled, removed>>
        ELSE IF found.index = 0
          THEN /\ immediates' = Reschedule(immediates, inv)
               /\ UNCHANGED <<subprocesses, order, alive, messageQueue,
                              inbox, uncaught, last, listing, socket,
                              handshaken,
                              issued, settled, removed>>
        ELSE /\ Settle(inv, found.outcome, messageQueue[h][found.index])
             /\ messageQueue' =
                  [messageQueue EXCEPT ![h] = Splice(@, found.index)]
             /\ removed' = removed + Len(messageQueue[h])
                                    - Len(Splice(messageQueue[h], found.index))
             /\ UNCHANGED uncaught
  /\ UNCHANGED <<owner, started, junk, limits>>

\* The worker of h answers a request.
Answer(h) ==
  \E k \in DOMAIN inbox[h], suffix \in {SUFFIX_done, SUFFIX_error} :
    \E payload \in ReplyPayloads(inbox[h][k]) :
      WorkerReply(h, k, suffix, payload)

Next ==
  \/ \E id \in Ids : Direct(Start(id))
  \/ \E id \in Ids : Direct(Stop(id))
  \/ \E id \in Ids : Direct(GetServiceInfo(id))
  \/ \E id \in Ids, kind \in CalledKinds : Direct(GetMetrics(id, kind))
  \/ \E h \in DOMAIN alive : Answer(h)
  \/ BeginCheck
  \/ Consume

Spec == Init /\ [][Next]_vars

\* One service, and a worker that also emits messages that answer nothing.
InitJunk ==
  /\ subprocesses = [id \in Ids |-> UNDEFINED]
  /\ order = <<>>
  /\ alive = <<>>
  /\ owner = <<>>
  /\ messageQueue = <<>>
  /\ inbox = <<>>
  /\ immediates = <<>>
  /\ running = <<>>
  /\ uncaught = FALSE
  /\ last = NoInvoke
  /\ listing = NoListing
  /\ socket = NoRequests
  /\ handshaken = <<>>
  /\ started = {}
  /\ junk = 0
  /\ issued = 0
  /\ settled = 0
  /\ removed = 0
  /\ limits = [invokes |-> MaxJunkInvokes, junk |-> MaxJunk]

NextJunk ==
  \/ \E id \in JunkIds : Direct(Start(id))
  \/ \E id \in JunkIds : Direct(Stop(id))
  \/ \E id \in JunkIds : Direct(GetServiceInfo(id))
  \/ \E id \in JunkIds, kind \in CalledKinds : Direct(GetMetrics(id, kind))
  \/ \E h \in DOMAIN alive : Answer(h)
  \/ \E h \in DOMAIN alive, message \in Junk : WorkerJunk(h, message)
  \/ BeginCheck
  \/ Consume

SpecJunk == InitJunk /\ [][NextJunk]_vars

\* The services and getServices, called while starts and stops are under
\* way.
InitServices ==
  /\ subprocesses = [id \in Ids |-> UNDEFINED]
  /\ order = <<>>
  /\ alive = <<>>
  /\ owner = <<>>
  /\ messageQueue = <<>>
  /\ inbox = <<>>
  /\ immediates = <<>>
  /\ running = <<>>
  /\ uncaught = FALSE
  /\ last = NoInvoke
  /\ listing = NoListing
  /\ socket = NoRequests
  /\ handshaken = <<>>
  /\ started = {}
  /\ junk = 0
  /\ issued = 0
  /\ settled = 0
  /\ removed = 0
  /\ limits = [invokes |-> MaxServicesInvokes, junk |-> 0]

NextServices ==
  \/ \E id \in Ids : Direct(Start(id))
  \/ \E id \in Ids : Direct(Stop(id))
  \/ \E id \in Ids : Direct(GetServiceInfo(id))
  \/ Direct(GetServices)
  \/ \E h \in DOMAIN alive : Answer(h)
  \/ BeginCheck
  \/ Consume

SpecServices == InitServices /\ [][NextServices]_vars

\* Two running services, their stop, getServiceInfo and getServices: from
\* the state in which start of svc1 and then start of svc2 have resolved.
InitRunning ==
  /\ subprocesses = [id \in Ids |-> IF id = "svc1" THEN 1 ELSE 2]
  /\ order = <<"svc1", "svc2">>
  /\ alive = <<TRUE, TRUE>>
  /\ owner = <<"svc1", "svc2">>
  /\ messageQueue = <<<<>>, <<>>>>
  /\ inbox = <<<<>>, <<>>>>
  /\ immediates = <<>>
  /\ running = <<>>
  /\ uncaught = FALSE
  /\ last = [Invoke("start", "svc2", UNDEFINED, 2, M_start, FALSE, 2)
               EXCEPT !.state = "resolved", !.serial = 1,
                      !.type = M_start \o SUFFIX_done,
                      !.payload = [connections |-> "3"]]
  /\ listing = NoListing
  /\ socket = NoRequests
  /\ handshaken = <<TRUE, TRUE>>
  /\ started = Ids
  /\ junk = 0
  /\ issued = 2
  /\ settled = 2
  /\ removed = 2
  /\ limits = [invokes |-> 2 + MaxRunningInvokes, junk |-> 0]

NextRunning ==
  \/ \E id \in Ids : Direct(Stop(id))
  \/ \E id \in Ids : Direct(GetServiceInfo(id))
  \/ Direct(GetServices)
  \/ \E h \in DOMAIN alive : Answer(h)
  \/ BeginCheck
  \/ Consume

SpecRunning == InitRunning /\ [][NextRunning]_vars

\* The event loop keeps turning and the workers keep answering: the check
\* phase follows the poll phase whenever a callback is scheduled, every
\* scheduled callback runs, and a worker that has a request to answer
\* answers in some poll phase.
InitLive ==
  /\ subprocesses = [id \in Ids |-> UNDEFINED]
  /\ order = <<>>
  /\ alive = <<>>
  /\ owner = <<>>
  /\ messageQueue = <<>>
  /\ inbox = <<>>
  /\ immediates = <<>>
  /\ running = <<>>
  /\ uncaught = FALSE
  /\ last = NoInvoke
  /\ listing = NoListing
  /\ socket = NoRequests
  /\ handshaken = <<>>
  /\ started = {}
  /\ junk = 0
  /\ issued = 0
  /\ settled = 0
  /\ removed = 0
  /\ limits = [invokes |-> MaxLiveInvokes, junk |-> 0]

Fairness ==
  /\ WF_vars(BeginCheck)
  /\ WF_vars(Consume)
  /\ SF_vars(\E h \in DOMAIN alive : Answer(h))

SpecLive == InitLive /\ [][Next]_vars /\ Fairness

\* One client socket whose 'request' events reach the registry.
InitRequests ==
  /\ subprocesses = [id \in Ids |-> UNDEFINED]
  /\ order = <<>>
  /\ alive = <<>>
  /\ owner = <<>>
  /\ messageQueue = <<>>
  /\ inbox = <<>>
  /\ immediates = <<>>
  /\ running = <<>>
  /\ uncaught = FALSE
  /\ last = NoInvoke
  /\ listing = NoListing
  /\ socket = NoRequests
  /\ handshaken = <<>>
  /\ started = {}
  /\ junk = 0
  /\ issued = 0
  /\ settled = 0
  /\ removed = 0
  /\ limits = [invokes |-> MaxRequests, junk |-> 0, requests |-> MaxRequests]

NextRequests ==
  \/ OnRequest(NullRequest)
  \/ \E method \in DispatchedMethods, id \in JunkIds :
       OnRequest(Request(method, id))
  \/ \E h \in DOMAIN alive : Answer(h)
  \/ BeginCheck
  \/ Consume

SpecRequests == InitRequests /\ [][NextRequests]_vars

----------------------------------------------------------------------------
(* Properties. *)

\* The sends still pending, and the tags of the messages of a queue.
Pending == immediates \o running
Serials(queue) == {queue[k].serial : k \in DOMAIN queue}

\* A send() settles in this step; a registry call sends in this step.
Settles == settled' # settled
Sends == issued' # issued
Sent == immediates'[Len(immediates')]

\* The live worker processes that start() forked for id.
LiveProcesses(id) == {h \in DOMAIN alive : owner[h] = id /\ alive[h]}

\* C1: under any interleaving of start and stop calls and any worker
\* replies, no step takes the entry of an id from tombstoned (NULL) to
\* absent (UNDEFINED).
C1_NeverTombstonedToAbsent ==
  [][\A id \in Ids :
       subprocesses[id] = NULL => subprocesses'[id] # UNDEFINED]_vars

\* C2: in every reachable state every id has at most one worker process
\* that start forked for it and that has not been killed.
C2_AtMostOneLiveProcess ==
  \A id \in Ids : Cardinality(LiveProcesses(id)) <= 1

\* C3: a queued message is consumed by at most one send(): the step that
\* settles a send() removes exactly the message it claimed from the queue of
\* its handle, so the message is there for no later scan, and the number of
\* settled sends never exceeds the number of messages removed.
C3_ConsumedAtMostOnce ==
  [][/\ settled' <= removed'
     /\ \A h \in DOMAIN messageQueue' :
          Cardinality(Serials(messageQueue'[h])) = Len(messageQueue'[h])
     /\ Settles =>
          /\ settled' = settled + 1
          /\ removed' = removed + 1
          /\ last'.serial \in Serials(messageQueue[last'.sub])
          /\ last'.serial \notin Serials(messageQueue'[last'.sub])
          /\ Serials(messageQueue'[last'.sub])
               = Serials(messageQueue[last'.sub]) \ {last'.serial}]_vars

\* C3 witness: a send() has settled while another send() of the same method
\* on the same handle is still pending.
C3_Witness ==
  /\ last.state \in {"resolved", "rejected"}
  /\ \E k \in DOMAIN Pending :
       Pending[k].sub = last.sub /\ Pending[k].method = last.method

\* The message type has the method as a prefix without being its reply.
PrefixOnly(type, method) ==
  /\ StartsWith(type, method)
  /\ type # method \o SUFFIX_done
  /\ type # method \o SUFFIX_error

\* C4: a send() of method T claims a message iff its type is T/done (the
\* call resolves with the payload) or T/error (it rejects with it): a
\* settled send() claimed such a message, a message leaves a queue only by
\* being claimed so, and a scan that claims nothing leaves no such message
\* behind.
C4_ClaimsExactType ==
  [][/\ Settles =>
          /\ last'.state = "resolved"
               => last'.type = last'.method \o SUFFIX_done
          /\ last'.state = "rejected"
               => last'.type = last'.method \o SUFFIX_error
          /\ \E k \in DOMAIN messageQueue[last'.sub] :
               /\ messageQueue[last'.sub][k].serial = last'.serial
               /\ messageQueue[last'.sub][k].type = last'.type
               /\ messageQueue[last'.sub][k].payload = last'.payload
     /\ \A h \in DOMAIN messageQueue : \A k \in DOMAIN messageQueue[h] :
          messageQueue[h][k].serial \notin Serials(messageQueue'[h])
            => /\ Settles
               /\ last'.sub = h
               /\ last'.serial = messageQueue[h][k].serial
               /\ ~PrefixOnly(messageQueue[h][k].type, last'.method)
     /\ (running # <<>> /\ ~Settles /\ ~uncaught') =>
          \A k \in DOMAIN messageQueue[Head(running).sub] :
            LET type == messageQueue[Head(running).sub][k].type IN
            /\ type # Head(running).method \o SUFFIX_done
            /\ type # Head(running).method \o SUFFIX_error]_vars

\* C4 witness: a start send() resolved with a reply that arrived after a
\* message whose type only has "start" as a prefix; that message is still
\* in the queue.
C4_Witness ==
  /\ last.state = "resolved"
  /\ last.method = M_start
  /\ \E k \in DOMAIN messageQueue[last.sub] :
       /\ PrefixOnly(messageQueue[last.sub][k].type, M_start)
       /\ messageQueue[last.sub][k].serial < last.serial

\* C5: a non-structured or malformed message of a worker never makes a scan
\* of the pending queue fail.
C5_MalformedNeverThrows == ~uncaught

\* C6: when the reply to the start handshake is start/error, start rejects
\* with that error and the entry of id is removed, so that getServiceInfo
\* returns INIT; and a start of an id that has no handle forks a fresh
\* worker, records it as the entry of id and sends it 'start'.
C6_FailedStartRevertsToInit ==
  [][/\ (Settles /\ last'.op = "start" /\ last'.state = "rejected") =>
          /\ last'.type = M_start \o SUFFIX_error
          /\ last'.result = ErrorOf(last'.payload)
          /\ subprocesses'[last'.id] = UNDEFINED
          /\ InfoCall(subprocesses'[last'.id], last'.id)
               = Returns([status |-> SERVICE_STATUS_INIT])
     /\ (Sends /\ Sent.op = "start" /\ ~IsHandle(subprocesses[Sent.id])) =>
          /\ Len(alive') = Len(alive) + 1
          /\ Sent.sub = Len(alive')
          /\ subprocesses'[Sent.id] = Sent.sub
          /\ alive'[Sent.sub]
          /\ messageQueue'[Sent.sub] = <<>>
          /\ inbox'[Sent.sub] = <<M_start>>]_vars

\* C6 witness: a start of an id that was tombstoned before the call has
\* been rejected, and the id is absent.
C6_Witness ==
  /\ last.op = "start"
  /\ last.state = "rejected"
  /\ last.before = NULL
  /\ subprocesses[last.id] = UNDEFINED

\* C7: when stop(id) resolves, the entry of id is the tombstone, so that
\* getServiceInfo returns STOPPED and a further stop rejects with the
\* not-found error; and whenever the entry of an id is absent or
\* tombstoned, stop(id) rejects with that error and sends nothing.
C7_StopTombstones ==
  [][/\ (Settles /\ last'.op = "stop" /\ last'.state = "resolved") =>
          /\ subprocesses'[last'.id] = NULL
          /\ InfoCall(subprocesses'[last'.id], last'.id)
               = Returns([status |-> SERVICE_STATUS_STOPPED])
     /\ \A id \in Ids :
          subprocesses'[id] \in {UNDEFINED, NULL} =>
            StopCall(subprocesses'[id], id) = Throws(NotFoundError(id))]_vars

\* C7 witness: a stop has resolved and its id is tombstoned.
C7_Witness ==
  /\ last.op = "stop"
  /\ last.state = "resolved"
  /\ subprocesses[last.id] = NULL

\* C8: a getServiceInfo that was called after start resolved on the handle,
\* and that resolves while the handle is the entry of id, resolves with
\* status RUNNING and with the other fields of the getStatus/done payload.
C8_RunningWithWorkerFields ==
  (/\ last.op = "getServiceInfo"
   /\ last.state = "resolved"
   /\ last.ready
   /\ subprocesses[last.id] = last.sub)
    => /\ last.result.status = SERVICE_STATUS_RUNNING
       /\ \A f \in DOMAIN last.payload :
            f \in DOMAIN last.result /\ (f # "status"
               => last.result[f] = last.payload[f])

\* C9: an id that was never passed to start is absent, whatever happened to
\* the other ids, and getServiceInfo of it returns INIT without a send.
C9_NeverStartedIsInit ==
  \A id \in Ids \ started :
    /\ subprocesses[id] = UNDEFINED
    /\ \A h \in DOMAIN owner : owner[h] # id
    /\ InfoCall(subprocesses[id], id)
         = Returns([status |-> SERVICE_STATUS_INIT])

\* C9 witness: one id was never started while another was started and
\* stopped.
C9_Witness ==
  \E id \in Ids \ started : \E other \in started :
    subprocesses[other] = NULL /\ subprocesses[id] = UNDEFINED

\* C10: getMetrics of an absent or tombstoned id resolves with the empty
\* result for each of the five kinds, without a send, where stop rejects.
C10_MetricsOfInactiveIsEmpty ==
  \A id \in Ids :
    ~IsHandle(subprocesses[id]) =>
      /\ \A kind \in Kinds \ {"other"} :
           MetricsCall(subprocesses[id], kind) = Returns(EmptyArray)
      /\ StopCall(subprocesses[id], id).state = "rejected"

\* C10 witness: one id is tombstoned and another one is absent.
C10_Witness ==
  \E id, other \in Ids :
    subprocesses[id] = NULL /\ subprocesses[other] = UNDEFINED

\* The getServices call settles in this step.
Lists == listing' # listing /\ listing'.state \in {"resolved", "rejected"}

\* C11: when getServices resolves, also after starts and stops were under
\* way while it awaited, its result has a key for exactly the ids that are
\* active or tombstoned in the registry, with status RUNNING for an active
\* id and the STOPPED info for a tombstoned one, and no key for an absent
\* id.
C11_ServicesMatchRegistry ==
  [][(Lists /\ listing'.state = "resolved") =>
       \A id \in Ids :
         /\ subprocesses'[id] = UNDEFINED
              => id \notin DOMAIN listing'.services
         /\ subprocesses'[id] = NULL
              => /\ id \in DOMAIN listing'.services
                 /\ listing'.services[id] = [status |-> SERVICE_STATUS_STOPPED]
         /\ subprocesses'[id] \in DOMAIN alive'
              => /\ id \in DOMAIN listing'.services
                 /\ listing'.services[id].status = SERVICE_STATUS_RUNNING]_vars

\* A reply to a request of type method is in the queue.
Queued(queue, method) ==
  \E k \in DOMAIN queue :
    queue[k].type \in {method \o SUFFIX_done, method \o SUFFIX_error}

\* Of start and stop, the other method.
OtherOf(method) == IF method = M_start THEN M_stop ELSE M_start

\* A send of start and a send of stop are both pending on handle h.
StartAndStopPending(h) ==
  /\ \E k \in DOMAIN Pending :
       Pending[k].sub = h /\ Pending[k].method = M_start
  /\ \E k \in DOMAIN Pending :
       Pending[k].sub = h /\ Pending[k].method = M_stop

\* C12: while a 'start' send and a 'stop' send are outstanding on one
\* handle, each is settled only by a reply of its own type, in whatever
\* order the replies arrived: the poller of the one claims no reply of the
\* other, leaves it in the queue and, as long as no reply of its own type
\* is queued, stays pending.
C12_StartAndStopSettleByOwnType ==
  [][(/\ running # <<>>
      /\ Head(running).method \in {M_start, M_stop}
      /\ StartAndStopPending(Head(running).sub)) =>
       LET inv == Head(running)
           queue == messageQueue[inv.sub]
       IN
       /\ Settles =>
            /\ last'.sub = inv.sub /\ last'.method = inv.method
            /\ last'.type \in {inv.method \o SUFFIX_done,
                               inv.method \o SUFFIX_error}
            /\ last'.state = "resolved"
                 <=> last'.type = inv.method \o SUFFIX_done
            /\ last'.state = "rejected"
                 <=> last'.type = inv.method \o SUFFIX_error
       /\ Settles <=> Queued(queue, inv.method)
       /\ \A k \in DOMAIN queue :
            queue[k].type \in {OtherOf(inv.method) \o SUFFIX_done,
                               OtherOf(inv.method) \o SUFFIX_error}
              => queue[k].serial \in Serials(messageQueue'[inv.sub])]_vars

\* C12 witness: a 'start' send has settled while a 'stop' send is pending
\* on the same handle, and the reply to stop, which arrived before the
\* reply that start claimed, is still in the queue.
C12_Witness ==
  /\ last.method = M_start
  /\ last.state \in {"resolved", "rejected"}
  /\ \E k \in DOMAIN Pending :
       Pending[k].sub = last.sub /\ Pending[k].method = M_stop
  /\ \E k \in DOMAIN messageQueue[last.sub] :
       /\ messageQueue[last.sub][k].type
            \in {M_stop \o SUFFIX_done, M_stop \o SUFFIX_error}
       /\ messageQueue[last.sub][k].serial < last.serial

\* The n-th send is pending; the process of its handle is killed.
PendingOf(n) == {k \in DOMAIN Pending : Pending[k].seq = n}
Outstanding(n) == PendingOf(n) # {}
Killed(n) == \E k \in PendingOf(n) : ~alive[Pending[k].sub]

\* C13: with workers that answer every request once and an event loop that
\* keeps turning, every send whose process is not killed is eventually
\* settled; a send is resolved by the /done reply of its method and
\* rejected with Error(payload) by its /error reply; and once it is settled
\* its poller is scheduled no more: the pollers scheduled after a step are
\* those of the sends that were pending and of the send just made.
C13_EverySendSettles ==
  /\ \A n \in 1..MaxLiveInvokes :
       (Outstanding(n) /\ ~Killed(n))
         ~> ((last.seq = n /\ last.state \in {"resolved", "rejected"})
               \/ Killed(n))
  /\ [][/\ Settles =>
             /\ last'.state = "resolved"
                  <=> last'.type = last'.method \o SUFFIX_done
             /\ last'.state = "rejected"
                  <=> last'.type = last'.method \o SUFFIX_error
             /\ last'.state = "rejected"
                  => last'.result = ErrorOf(last'.payload)
             /\ \A k \in DOMAIN Pending' : Pending'[k].seq # last'.seq
        /\ \A k \in DOMAIN Pending' :
             \/ \E j \in DOMAIN Pending : Pending[j] = Pending'[k]
             \/ Sends /\ Pending'[k].seq = issued']_vars

\* C13 witness: every send that was made has settled, the last one by a
\* /error reply, its process is alive and no poller is scheduled.
C13_Witness ==
  /\ issued = limits.invokes
  /\ settled = issued
  /\ Pending = <<>>
  /\ last.state = "rejected"
  /\ last.seq = issued
  /\ alive[last.sub]

\* C14: when a start attempt fails its handle is destroyed, the worker
\* process as well as the registry entry: every worker process that was
\* forked and not killed is the handle of the entry of its id.
C14_NoLiveWorkerWithoutEntry ==
  \A h \in DOMAIN alive : alive[h] => subprocesses[owner[h]] = h

\* C15: stop(id) on an active id kills the process only in the step in
\* which its 'stop' send claims stop/done, and tombstones the entry only in
\* that step, after the kill; the process killed is the one that the entry
\* of id holds at that moment, and the entry tombstoned is the one whose
\* process was killed.
C15_StopKillsItsEntry ==
  [][/\ (Settles /\ last'.op = "stop" /\ last'.state = "resolved") =>
          /\ last'.type = M_stop \o SUFFIX_done
          /\ ~alive'[last'.sub]
          /\ subprocesses[last'.id] = last'.sub
          /\ subprocesses'[last'.id] = NULL
     /\ \A h \in DOMAIN alive :
          (alive[h] /\ ~alive'[h]) =>
            /\ Settles
            /\ last'.op = "stop" /\ last'.state = "resolved"
            /\ last'.sub = h
     /\ \A id \in Ids :
          (subprocesses[id] # NULL /\ subprocesses'[id] = NULL) =>
            /\ Settles
            /\ last'.op = "stop" /\ last'.state = "resolved"
            /\ last'.id = id
            /\ ~alive'[last'.sub]]_vars

\* The worker processes that start() ever forked for id.
Forked(id) == {h \in DOMAIN owner : owner[h] = id}

\* C16: start(id) forks a worker only if the entry of id is absent or
\* tombstoned when it is called, and records the new handle as the entry
\* in the same step, before it awaits; a start on an active id, a second
\* start during a pending handshake included, reuses the handle, sends it
\* 'start' and forks nothing; so as long as no send has settled, any number
\* of start(id) calls have forked exactly one worker for id.
C16_StartForksOnce ==
  [][/\ (Sends /\ Sent.op = "start") =>
          /\ Sent.before = subprocesses[Sent.id]
          /\ IF Sent.before \in DOMAIN alive
               THEN /\ Len(alive') = Len(alive)
                    /\ Sent.sub = Sent.before
                    /\ subprocesses' = subprocesses
                    /\ inbox'[Sent.sub] = Append(inbox[Sent.sub], M_start)
               ELSE /\ Len(alive') = Len(alive) + 1
                    /\ Sent.sub = Len(alive')
                    /\ owner'[Sent.sub] = Sent.id
                    /\ subprocesses'[Sent.id] = Sent.sub
     /\ Len(alive') # Len(alive) =>
          /\ Sends
          /\ Sent.op = "start"
          /\ Sent.before \in {UNDEFINED, NULL}
     /\ settled' = 0 =>
          \A id \in Ids :
            Cardinality(Forked(id)') = IF id \in started' THEN 1 ELSE 0]_vars

\* C16 witness: two starts of one id are pending on the one worker forked
\* for it: the first was called on the absent id, the second during the
\* handshake of the first.
C16_Witness ==
  \E i, j \in DOMAIN Pending :
    /\ Pending[i].op = "start" /\ Pending[j].op = "start"
    /\ Pending[i].id = Pending[j].id
    /\ Pending[i].before = UNDEFINED
    /\ Pending[j].before = Pending[i].sub
    /\ Pending[j].sub = Pending[i].sub
    /\ Forked(Pending[i].id) = {Pending[i].sub}
    /\ subprocesses[Pending[i].id] = Pending[i].sub

C18_EveryRequestAnsweredOnce ==
  [][/\ socket'.unhandled = 0
     /\ socket'.requests
          = Len(socket'.responses) + Cardinality(socket'.awaiting)
     /\ (Settles /\ last'.seq \in socket.awaiting) =>
          /\ last'.seq \notin socket'.awaiting
          /\ socket'.responses =
               Append(socket.responses,
                      IF last'.state = "resolved"
                        THEN [code |-> 0, data |-> last'.result]
                        ELSE [code |-> -1, message |-> last'.result.message])
     /\ Len(socket'.responses) > Len(socket.responses) =>
          \/ Settles /\ last'.seq \in socket.awaiting
          \/ /\ socket'.requests = socket.requests + 1
             /\ socket'.awaiting = socket.awaiting]_vars

\* C19: when the 'stop' send claims stop/error, stop(id) rejects with that
\* error and the step kills no process and changes no entry of the
\* registry: an entry that held the handle still holds it, so that a later
\* stop(id) sends 'stop' to the same worker.
C19_FailedStopChangesNothing ==
  [][(Settles /\ last'.op = "stop" /\ last'.state = "rejected") =>
       /\ last'.type = M_stop \o SUFFIX_error
       /\ last'.result = ErrorOf(last'.payload)
       /\ alive' = alive
       /\ subprocesses' = subprocesses
       /\ subprocesses[last'.id] = last'.sub =>
            /\ subprocesses'[last'.id] = last'.sub
            /\ StopCall(subprocesses'[last'.id], last'.id) = Awaits(M_stop)]_vars

\* C19 witness: a stop was rejected; its worker is alive and its handle is
\* the entry of the id.
C19_Witness ==
  /\ last.op = "stop"
  /\ last.state = "rejected"
  /\ alive[last.sub]
  /\ subprocesses[last.id] = last.sub

\* The position in queue of the message that carries the tag serial.
PositionOf(queue, serial) ==
  CHOOSE k \in DOMAIN queue : queue[k].serial = serial

\* The sends of the method of inv that are pending on its handle and were
\* made before it.
EarlierTwins(inv) ==
  {k \in DOMAIN Pending :
     /\ Pending[k].sub = inv.sub
     /\ Pending[k].method = inv.method
     /\ Pending[k].seq < inv.seq}

\* The send that settles in this step took the reply of its method that
\* arrived first, and the other messages of the queue stay as they are, in
\* the order they arrived in.
ClaimsFirstArrived ==
  LET queue == messageQueue[last'.sub]
      at == PositionOf(queue, last'.serial)
  IN
  /\ \A k \in 1..(at - 1) :
       queue[k].type \notin {last'.method \o SUFFIX_done,
                             last'.method \o SUFFIX_error}
  /\ messageQueue'[last'.sub]
       = SubSeq(queue, 1, at - 1) \o SubSeq(queue, at + 1, Len(queue))

\* C20 as stated: of the sends of one method outstanding on one handle the
\* one made first claims the reply that arrived first: a send that settles
\* has no pending twin that was made before it, it took the first reply of
\* its method in the queue, and the other messages stay in place.
C20_FifoByIssue ==
  [][Settles => (EarlierTwins(last') = {} /\ ClaimsFirstArrived)]_vars

\* C20, amended: the send whose poller runs first claims the reply that
\* arrived first and leaves the other messages in place.  The pollers run
\* in the order the sends were made, except that a send made by the loop of
\* getServices in the check phase is polled, from the next turn on, before
\* the pending sends that were rescheduled after it: only such a send
\* settles while a twin made before it is pending, and the pollers that are
\* scheduled are otherwise in the order the sends were made.
C20_FifoByPoller ==
  [][/\ Settles =>
          /\ ClaimsFirstArrived
          /\ last' = [Head(running) EXCEPT
                        !.state = last'.state, !.serial = last'.serial,
                        !.type = last'.type, !.payload = last'.payload,
                        !.result = last'.result]
          /\ EarlierTwins(last') # {} => last'.op = "getServices"
     /\ \A i, j \in DOMAIN immediates' :
          (i < j /\ immediates'[i].seq > immediates'[j].seq)
            => immediates'[i].op = "getServices"]_vars

\* C20 witness: the getStatus send that getServices made for its second
\* service has resolved while the getStatus send of a getServiceInfo call
\* that was made before it is still pending on the same handle.
C20_Witness ==
  /\ last.op = "getServices"
  /\ last.state = "resolved"
  /\ \E k \in DOMAIN Pending :
       /\ Pending[k].op = "getServiceInfo"
       /\ Pending[k].sub = last.sub
       /\ Pending[k].method = last.method
       /\ Pending[k].seq < last.seq

=============================================================================
